---- MODULE Spec2Model ----
(***************************************************************************)
(* State-machine model of src/api.js: an express application with two      *)
(* relays, POST /api/chat and POST /api/title, that forward a prompt to a   *)
(* chat-completion provider through callChatCompletions and shape the       *)
(* provider's answer into {reply} or {error}.                               *)
(*                                                                         *)
(* Every inbound request is one logical task on the node event loop.  A    *)
(* handler runs without interruption up to its next await; the model has   *)
(* one action per such run:                                                *)
(*   PostChat / PostTitle   request arrival up to `await fetch(...)`       *)
(*   FetchResolves / FetchRejects   the provider answers, or the network   *)
(*                          fails; up to `await resp.json()`               *)
(*   JsonSettles            the body has been read; rest of the handler    *)
(*                                                                         *)
(* Texts (message contents, replies) are sequences of one-character        *)
(* strings so that JSON.parse and JSON.stringify can be computed on them.  *)
(***************************************************************************)
EXTENDS Integers, Sequences, FiniteSets, TLC

\* Number of inbound requests that may be in flight together (Spec).
MaxReqs == 3

\* Longest provider text enumerated exhaustively over Alphabet (SpecOne).
MaxLen == 4

(***************************************************************************)
(* JSON texts.                                                             *)
(***************************************************************************)

Digits == {"0", "1", "2", "3", "4", "5", "6", "7", "8", "9"}

DigitVal(c) ==
  CASE c = "0" -> 0 [] c = "1" -> 1 [] c = "2" -> 2 [] c = "3" -> 3
    [] c = "4" -> 4 [] c = "5" -> 5 [] c = "6" -> 6 [] c = "7" -> 7
    [] c = "8" -> 8 [] c = "9" -> 9

DigitChar(d) ==
  CASE d = 0 -> "0" [] d = 1 -> "1" [] d = 2 -> "2" [] d = 3 -> "3"
    [] d = 4 -> "4" [] d = 5 -> "5" [] d = 6 -> "6" [] d = 7 -> "7"
    [] d = 8 -> "8" [] d = 9 -> "9"

ParseFail == [ok |-> FALSE]

ParseOk(v, i) == [ok |-> TRUE, val |-> v, next |-> i]

RECURSIVE SkipWs(_, _)
\* Index of the first character of s at or after i that is not white space.
SkipWs(s, i) ==
  IF i <= Len(s) /\ s[i] = " " THEN SkipWs(s, i + 1) ELSE i

RECURSIVE ParseDigits(_, _, _)
\* Digits of an integer part after its first digit: value so far in acc.
ParseDigits(s, i, acc) ==
  IF i <= Len(s) /\ s[i] \in Digits
  THEN ParseDigits(s, i + 1, acc * 10 + DigitVal(s[i]))
  ELSE ParseOk([t |-> "num", n |-> acc], i)

\* number: 0 | [1-9][0-9]*   (a leading zero ends the number)
ParseNumber(s, i) ==
  IF s[i] = "0"
  THEN ParseOk([t |-> "num", n |-> 0], i + 1)
  ELSE ParseDigits(s, i + 1, DigitVal(s[i]))

RECURSIVE ParseChars(_, _, _)
\* string: the characters up to the closing quote (no escapes in Alphabet).
ParseChars(s, i, acc) ==
  IF i > Len(s) THEN ParseFail
  ELSE IF s[i] = "\"" THEN ParseOk([t |-> "str", chars |-> acc], i + 1)
  ELSE ParseChars(s, i + 1, Append(acc, s[i]))

\* The literals null, true, false.
ParseLiteral(s, i, word) ==
  IF /\ i + Len(word) - 1 <= Len(s)
     /\ SubSeq(s, i, i + Len(word) - 1) = word
  THEN ParseOk([t |-> "lit", word |-> word], i + Len(word))
  ELSE ParseFail

RECURSIVE SetMember(_, _, _)
\* obj[k] = v on an object under construction: a repeated key keeps its
\* place and takes the later value.
SetMember(members, k, v) ==
  IF members = <<>> THEN << [k |-> k, v |-> v] >>
  ELSE IF Head(members).k = k THEN << [k |-> k, v |-> v] >> \o Tail(members)
  ELSE << Head(members) >> \o SetMember(Tail(members), k, v)

RECURSIVE ParseValue(_, _), ParseElements(_, _, _), ParseMembers(_, _, _)

ParseValue(s, i) ==
  LET j == SkipWs(s, i) IN
  IF j > Len(s) THEN ParseFail
  ELSE IF s[j] = "[" THEN
    LET k == SkipWs(s, j + 1) IN
    IF k <= Len(s) /\ s[k] = "]"
    THEN ParseOk([t |-> "arr", items |-> <<>>], k + 1)
    ELSE ParseElements(s, j + 1, <<>>)
  ELSE IF s[j] = "{" THEN
    LET k == SkipWs(s, j + 1) IN
    IF k <= Len(s) /\ s[k] = "}"
    THEN ParseOk([t |-> "obj", members |-> <<>>], k + 1)
    ELSE ParseMembers(s, j + 1, <<>>)
  ELSE IF s[j] = "\"" THEN ParseChars(s, j + 1, <<>>)
  ELSE IF s[j] \in Digits THEN ParseNumber(s, j)
  ELSE IF s[j] = "n" THEN ParseLiteral(s, j, <<"n", "u", "l", "l">>)
  ELSE IF s[j] = "t" THEN ParseLiteral(s, j, <<"t", "r", "u", "e">>)
  ELSE IF s[j] = "f" THEN ParseLiteral(s, j, <<"f", "a", "l", "s", "e">>)
  ELSE ParseFail

\* elements: value (, value)* ]
ParseElements(s, i, acc) ==
  LET v == ParseValue(s, i) IN
  IF ~v.ok THEN ParseFail
  ELSE
    LET k == SkipWs(s, v.next) IN
    IF k > Len(s) THEN ParseFail
    ELSE IF s[k] = "," THEN ParseElements(s, k + 1, Append(acc, v.val))
    ELSE IF s[k] = "]"
      THEN ParseOk([t |-> "arr", items |-> Append(acc, v.val)], k + 1)
    ELSE ParseFail

\* members: string : value (, string : value)* }
ParseMembers(s, i, acc) ==
  LET j == SkipWs(s, i) IN
  IF j > Len(s) \/ s[j] # "\"" THEN ParseFail
  ELSE
    LET key == ParseChars(s, j + 1, <<>>) IN
    IF ~key.ok THEN ParseFail
    ELSE
      LET c == SkipWs(s, key.next) IN
      IF c > Len(s) \/ s[c] # ":" THEN ParseFail
      ELSE
        LET v == ParseValue(s, c + 1) IN
        IF ~v.ok THEN ParseFail
        ELSE
          LET k   == SkipWs(s, v.next)
              now == SetMember(acc, key.val.chars, v.val)
          IN
          IF k > Len(s) THEN ParseFail
          ELSE IF s[k] = "," THEN ParseMembers(s, k + 1, now)
          ELSE IF s[k] = "}"
            THEN ParseOk([t |-> "obj", members |-> now], k + 1)
          ELSE ParseFail

\* JSON.parse(text): the value, or a SyntaxError (ok = FALSE) when the text
\* is not one JSON value surrounded by optional white space.
JsonParse(s) ==
  LET v == ParseValue(s, 1) IN
  IF v.ok /\ SkipWs(s, v.next) > Len(s)
  THEN [ok |-> TRUE, val |-> v.val]
  ELSE [ok |-> FALSE]

RECURSIVE NatToChars(_)
NatToChars(n) ==
  IF n < 10 THEN << DigitChar(n) >>
  ELSE NatToChars(n \div 10) \o << DigitChar(n % 10) >>

RECURSIVE JsonStringify(_), StringifyItems(_), StringifyMembers(_)

\* JSON.stringify(value): no white space, members in insertion order.
JsonStringify(v) ==
  CASE v.t = "num" -> NatToChars(v.n)
    [] v.t = "lit" -> v.word
    [] v.t = "str" -> <<"\"">> \o v.chars \o <<"\"">>
    [] v.t = "arr" -> <<"[">> \o StringifyItems(v.items) \o <<"]">>
    [] v.t = "obj" -> <<"{">> \o StringifyMembers(v.members) \o <<"}">>

StringifyItems(items) ==
  IF items = <<>> THEN <<>>
  ELSE IF Len(items) = 1 THEN JsonStringify(items[1])
  ELSE JsonStringify(items[1]) \o <<",">> \o StringifyItems(Tail(items))

StringifyMembers(ms) ==
  IF ms = <<>> THEN <<>>
  ELSE
    LET one == <<"\"">> \o ms[1].k \o <<"\"", ":">> \o JsonStringify(ms[1].v) IN
    IF Len(ms) = 1 THEN one
    ELSE one \o <<",">> \o StringifyMembers(Tail(ms))

(***************************************************************************)
(* State.                                                                  *)
(***************************************************************************)

Reqs == 1..MaxReqs

VARIABLES
  apiKey,    \* process.env.OPENAI_API_KEY is set (non-empty)
  pc,        \* pc[r]: where request r's handler is
  route,     \* route[r]: "chat" or "title" ("none" before arrival)
  body,      \* body[r]: req.body, a record of the fields that are present
  calls,     \* calls[r]: the outbound fetch calls made for r, in order
  fetched,   \* fetched[r]: what r's fetch settled with
  sent       \* sent[r]: the HTTP responses written for r, in order

vars == <<apiKey, pc, route, body, calls, fetched, sent>>

(***************************************************************************)
(* Values of the program.                                                  *)
(***************************************************************************)

\* JavaScript truthiness of the string field f of a request body: absent
\* (undefined) and "" are falsy.
Truthy(b, f) == f \in DOMAIN b /\ b[f] # ""

\* res.status(st).json({ error: m })
ErrorResponse(st, m) == [status |-> st, error |-> m]

\* res.json({ reply: txt }): express answers 200 unless a status was set.
ReplyResponse(txt) == [status |-> 200, reply |-> txt]

Threw(m) == [threw |-> TRUE, message |-> m]

Returned(txt) == [threw |-> FALSE, text |-> txt]

\* mustEnv("OPENAI_API_KEY")
mustEnv == IF ~apiKey THEN Threw("OPENAI_API_KEY is not set") ELSE Returned(<<>>)

\* The rejection of fetch on a network failure (node-fetch's FetchError).
NetworkError == Threw("request to provider failed")

\* e?.message || String(e) in the handlers' catch.
CatchMessage(e) == IF e.message # "" THEN e.message ELSE "Error"

\* resp.ok
RespOk(status) == 200 <= status /\ status <= 299

\* `OpenAI error (${resp.status})`
StatusMessage(status) ==
  CASE status = 200 -> "OpenAI error (200)"
    [] status = 204 -> "OpenAI error (204)"
    [] status = 401 -> "OpenAI error (401)"
    [] status = 429 -> "OpenAI error (429)"
    [] OTHER -> "OpenAI error (5xx)"

\* Variant: data?.error?.message ?? `OpenAI error (${resp.status})`
ProviderErrorMessage_nullish(data, status) ==
  IF "error" \in DOMAIN data /\ "message" \in DOMAIN data.error
  THEN data.error.message
  ELSE StatusMessage(status)

\* data?.error?.message || `OpenAI error (${resp.status})`
ProviderErrorMessage(data, status) ==
  IF /\ "error" \in DOMAIN data
     /\ "message" \in DOMAIN data.error
     /\ data.error.message # ""
  THEN data.error.message
  ELSE StatusMessage(status)

\* Variant: data?.choices?.[0]?.text ?? ""   (the legacy completions field)
ExtractText_legacyField(data) ==
  IF /\ "choices" \in DOMAIN data
     /\ Len(data.choices) >= 1
     /\ "text" \in DOMAIN data.choices[1]
  THEN data.choices[1].text
  ELSE <<>>

\* data?.choices?.[0]?.message?.content ?? ""
ExtractText(data) ==
  IF /\ "choices" \in DOMAIN data
     /\ Len(data.choices) >= 1
     /\ "message" \in DOMAIN data.choices[1]
     /\ "content" \in DOMAIN data.choices[1].message
  THEN data.choices[1].message.content
  ELSE <<>>

\* await resp.json().catch(() => ({})): the parsed body, {} when the body is
\* not JSON.
ReadJson(resp) == IF resp.json THEN resp.data ELSE <<>>

\* Variant: `await resp.json()` without the catch: a body that is not JSON
\* makes the call throw.
callChatCompletions_noCatch(resp) ==
  IF ~resp.json
  THEN Threw("invalid json response body")
  ELSE IF ~RespOk(resp.status)
  THEN Threw(ProviderErrorMessage(resp.data, resp.status))
  ELSE Returned(ExtractText(resp.data))

\* callChatCompletions from `const data = ...` on: throws on a non-2xx
\* status, returns the first choice's content otherwise.
callChatCompletions(resp) ==
  LET data == ReadJson(resp) IN
  IF ~RespOk(resp.status)
  THEN Threw(ProviderErrorMessage(data, resp.status))
  ELSE Returned(ExtractText(data))

\* The messages of /api/chat's outbound call.
ChatRequest(b) ==
  [messages    |-> << [role |-> "system", content |-> "support chat assistant"],
                      [role |-> "user", content |-> b.message] >>,
   temperature |-> "0.6",
   max_tokens  |-> 400]

\* const img = imageDataUrl || imageUrl   ("" when neither is truthy)
img(b) ==
  IF Truthy(b, "imageDataUrl") THEN b.imageDataUrl
  ELSE IF Truthy(b, "imageUrl") THEN b.imageUrl
  ELSE ""

\* const detailMode = highRes ? "high" : "low"   (highRes defaults to false)
detailMode(b) == IF "highRes" \in DOMAIN b /\ b.highRes THEN "high" ELSE "low"

\* The messages of /api/title's outbound call.
TitleRequest(b) ==
  [messages    |-> << [role |-> "system", content |-> "eBay title assistant"],
                      [role |-> "user",
                       hintText |-> IF Truthy(b, "hintText") THEN b.hintText ELSE "",
                       detail |-> detailMode(b),
                       image_url |-> [url |-> img(b), detail |-> detailMode(b)]] >>,
   temperature |-> "0.2",
   max_tokens  |-> 260]

\* What a handler did in one uninterrupted run: the responses it wrote and
\* the fetch calls it started.
Ran(responses, fetches) == [sent |-> responses, fetch |-> fetches]

\* callChatCompletions up to `await fetch(...)`, inside the handler's try:
\* mustEnv throwing lands in the handler's catch.
StartCall(request) ==
  IF mustEnv.threw
  THEN Ran(<< ErrorResponse(500, CatchMessage(mustEnv)) >>, <<>>)
  ELSE Ran(<<>>, << request >>)

\* Variant: the credential check ahead of the validation, as in /api/title.
ChatEntry_keyFirst(b) ==
  IF ~apiKey
  THEN Ran(<< ErrorResponse(500, "OPENAI_API_KEY is not set") >>, <<>>)
  ELSE IF ~Truthy(b, "message")
  THEN Ran(<< ErrorResponse(400, "message is required") >>, <<>>)
  ELSE StartCall(ChatRequest(b))

\* Variant: the 400 written without `return`, the handler running on.
ChatEntry_noReturn(b) ==
  LET rest == IF ~apiKey
              THEN Ran(<< ErrorResponse(500, "OPENAI_API_KEY is not set") >>, <<>>)
              ELSE StartCall([messages |-> <<>>, temperature |-> "0.6", max_tokens |-> 400])
  IN
  IF ~Truthy(b, "message")
  THEN Ran(<< ErrorResponse(400, "message is required") >> \o rest.sent, rest.fetch)
  ELSE rest

\* app.post("/api/chat") up to its first await.
ChatEntry(b) ==
  IF ~Truthy(b, "message")
  THEN Ran(<< ErrorResponse(400, "message is required") >>, <<>>)
  ELSE IF ~apiKey
  THEN Ran(<< ErrorResponse(500, "OPENAI_API_KEY is not set") >>, <<>>)
  ELSE StartCall(ChatRequest(b))

\* Variant: the validation ahead of the credential check, as in /api/chat.
TitleEntry_imageFirst(b) ==
  IF img(b) = ""
  THEN Ran(<< ErrorResponse(400, "imageUrl or imageDataUrl is required") >>, <<>>)
  ELSE IF ~apiKey
  THEN Ran(<< ErrorResponse(500, "OPENAI_API_KEY is not set") >>, <<>>)
  ELSE StartCall(TitleRequest(b))

\* Variant: no check that an image was supplied.
TitleEntry_noValidation(b) ==
  IF ~apiKey
  THEN Ran(<< ErrorResponse(500, "OPENAI_API_KEY is not set") >>, <<>>)
  ELSE StartCall(TitleRequest(b))

\* app.post("/api/title") up to its first await.
TitleEntry(b) ==
  IF ~apiKey
  THEN Ran(<< ErrorResponse(500, "OPENAI_API_KEY is not set") >>, <<>>)
  ELSE IF img(b) = ""
  THEN Ran(<< ErrorResponse(400, "imageUrl or imageDataUrl is required") >>, <<>>)
  ELSE StartCall(TitleRequest(b))

\* /api/chat after `await callChatCompletions(...)`.
ChatFinish(result) ==
  IF result.threw
  THEN ErrorResponse(500, CatchMessage(result))
  ELSE ReplyResponse(result.text)

\* Variant: the raw text relayed without JSON.parse / JSON.stringify.
TitleShape_rawOnly(raw) == ReplyResponse(raw)

\* /api/title's response shaping: JSON.parse(raw) in its own try; the raw
\* text when it throws, the re-serialized value otherwise.
TitleShape(raw) ==
  LET obj == JsonParse(raw) IN
  IF ~obj.ok THEN ReplyResponse(raw) ELSE ReplyResponse(JsonStringify(obj.val))

\* /api/title after `await callChatCompletions(...)`.
TitleFinish(result) ==
  IF result.threw
  THEN ErrorResponse(500, CatchMessage(result))
  ELSE TitleShape(result.text)

\* The handler's catch when fetch rejected.
RejectedResponse == ErrorResponse(500, CatchMessage(NetworkError))

\* Variant: resp kept in a module-level variable that every request's call
\* assigns: a call reads the response of the latest request that has one.
RespOf_shared(r) ==
  fetched[CHOOSE q \in DOMAIN fetched :
            /\ fetched[q].kind = "response"
            /\ \A p \in DOMAIN fetched : fetched[p].kind = "response" => p <= q]

\* `const resp = await fetch(...)`: a binding local to request r's call.
RespOf(r) == fetched[r]

(***************************************************************************)
(* The provider's answers and the callers' request bodies.                 *)
(***************************************************************************)

NoFetch == [kind |-> "none"]

Rejected == [kind |-> "rejected"]

\* An HTTP response of the provider.  json says whether the body parses as
\* JSON; data is the parsed body.
Response(st, isJson, d) == [kind |-> "response", status |-> st, json |-> isJson, data |-> d]

\* Parsed bodies with choices[0].message.content = txt.
Completion(txt) == [choices |-> << [message |-> [content |-> txt]] >>]

\* Parsed bodies without a usable content or with an error object.
OtherData ==
  { <<>>,
    [error |-> [message |-> "quota exceeded"]],
    [error |-> [message |-> ""]],
    [error |-> <<>>],
    [choices |-> <<>>],
    [choices |-> << <<>> >>],
    [choices |-> << [message |-> <<>>] >>] }

Statuses == {200, 204, 429}

ProviderResponses(texts) ==
  { Response(st, FALSE, <<>>) : st \in Statuses }
    \cup { Response(st, TRUE, d) : st \in Statuses, d \in OtherData }
    \cup { Response(st, TRUE, Completion(txt)) : st \in Statuses, txt \in texts }

Q == "\""

Alphabet == {" ", "[", "]", ",", "0", "1", Q, "h"}

SeqsUpTo(A, n) == UNION { [1..k -> A] : k \in 0..n }

\* Longer texts: objects, literals, a repeated key, a truncated object.
SampleTexts ==
  { <<"h", "e", "l", "l", "o">>,
    <<"{", Q, "a", Q, ":", Q, "h", Q, "}">>,
    <<"{", " ", Q, "a", Q, " ", ":", " ", "[", "1", ",", " ", "0", "]", " ", "}">>,
    <<"{", Q, "a", Q, ":", "1", ",", Q, "b", Q, ":", "2", ",", Q, "a", Q, ":", "0", "}">>,
    <<"{", Q, "a", Q, ":", "1">>,
    <<"n", "u", "l", "l">>,
    <<" ", "t", "r", "u", "e">> }

AllTexts == SeqsUpTo(Alphabet, MaxLen) \cup SampleTexts

\* The provider's answers of the one-request specification.
EveryResponse == ProviderResponses(AllTexts)

ChatBodies ==
  { <<>>,
    [message |-> ""],
    [message |-> "hi"],
    [hintText |-> "vase"],
    [message |-> "", imageUrl |-> "http://u/i.png"],
    [message |-> "hi", imageUrl |-> "http://u/i.png"] }

ImageFields ==
  { <<>>,
    [imageUrl |-> ""],
    [imageUrl |-> "http://u/i.png"],
    [imageDataUrl |-> ""],
    [imageDataUrl |-> "data:image/png;base64,AA=="],
    [imageUrl |-> "", imageDataUrl |-> ""],
    [imageUrl |-> "http://u/i.png", imageDataUrl |-> ""],
    [imageUrl |-> "", imageDataUrl |-> "data:image/png;base64,AA=="],
    [imageUrl |-> "http://u/i.png", imageDataUrl |-> "data:image/png;base64,AA=="] }

TitleBodies ==
  ImageFields
    \cup { [imageUrl |-> "http://u/i.png", highRes |-> TRUE],
           [imageDataUrl |-> "data:image/png;base64,AA==", hintText |-> "vase"],
           [hintText |-> "vase", highRes |-> TRUE],
           [message |-> "hi"] }

\* The inputs of the concurrent specification.
FewTexts == { <<"h", "e", "l", "l", "o">>, <<"[", "1", " ", "]">> }

FewResponses ==
  { Response(200, TRUE, Completion(txt)) : txt \in FewTexts }
    \cup { Response(200, FALSE, <<>>),
           Response(429, FALSE, <<>>),
           Response(429, TRUE, [error |-> [message |-> "quota exceeded"]]) }

FewChatBodies == { <<>>, [message |-> ""], [message |-> "hi"] }

FewTitleBodies == { <<>>, [imageUrl |-> "http://u/i.png"] }

(***************************************************************************)
(* Actions.                                                                *)
(***************************************************************************)

Init ==
  /\ apiKey \in BOOLEAN
  /\ pc = [r \in Reqs |-> "idle"]
  /\ route = [r \in Reqs |-> "none"]
  /\ body = [r \in Reqs |-> <<>>]
  /\ calls = [r \in Reqs |-> <<>>]
  /\ fetched = [r \in Reqs |-> NoFetch]
  /\ sent = [r \in Reqs |-> <<>>]

\* Requests are numbered in their order of arrival.
Arrives(r) == pc[r] = "idle" /\ (IF r = 1 THEN TRUE ELSE pc[r - 1] # "idle")

\* A handler's first run, with what it did.
Enter(r, name, b, ran) ==
  /\ Arrives(r)
  /\ route' = [route EXCEPT ![r] = name]
  /\ body' = [body EXCEPT ![r] = b]
  /\ sent' = [sent EXCEPT ![r] = @ \o ran.sent]
  /\ calls' = [calls EXCEPT ![r] = @ \o ran.fetch]
  /\ pc' = [pc EXCEPT ![r] = IF ran.fetch # <<>> THEN "awaitFetch" ELSE "done"]
  /\ UNCHANGED <<apiKey, fetched>>

\* POST /api/chat with body b arrives as request r.
PostChat(r, b) == Enter(r, "chat", b, ChatEntry(b))

\* POST /api/title with body b arrives as request r.
PostTitle(r, b) == Enter(r, "title", b, TitleEntry(b))

\* The provider answers r's outbound call; the handler goes on to read the
\* body (await resp.json()).
FetchResolves(r, resp) ==
  /\ pc[r] = "awaitFetch"
  /\ fetched' = [fetched EXCEPT ![r] = resp]
  /\ pc' = [pc EXCEPT ![r] = "awaitJson"]
  /\ UNCHANGED <<apiKey, route, body, calls, sent>>

\* Variant: a rejected fetch is tried again (up to three calls).
FetchRejects_retry(r) ==
  /\ pc[r] = "awaitFetch"
  /\ IF Len(calls[r]) < 3
     THEN /\ calls' = [calls EXCEPT ![r] = Append(@, @[1])]
          /\ UNCHANGED <<pc, fetched, sent>>
     ELSE /\ fetched' = [fetched EXCEPT ![r] = [kind |-> "rejected"]]
          /\ sent' = [sent EXCEPT ![r] = Append(@, ErrorResponse(500, "request to provider failed"))]
          /\ pc' = [pc EXCEPT ![r] = "done"]
          /\ UNCHANGED calls
  /\ UNCHANGED <<apiKey, route, body>>

\* r's outbound call fails at the network level: fetch rejects, the
\* rejection leaves callChatCompletions and the handler's catch answers.
FetchRejects(r) ==
  /\ pc[r] = "awaitFetch"
  /\ fetched' = [fetched EXCEPT ![r] = Rejected]
  /\ sent' = [sent EXCEPT ![r] = Append(@, RejectedResponse)]
  /\ pc' = [pc EXCEPT ![r] = "done"]
  /\ UNCHANGED <<apiKey, route, body, calls>>

\* The body of r's provider response has been read: the rest of
\* callChatCompletions and of the handler.
JsonSettles(r) ==
  /\ pc[r] = "awaitJson"
  /\ LET result == callChatCompletions(RespOf(r)) IN
     sent' = [sent EXCEPT ![r] =
                Append(@, IF route[r] = "chat" THEN ChatFinish(result)
                                                ELSE TitleFinish(result))]
  /\ pc' = [pc EXCEPT ![r] = "done"]
  /\ UNCHANGED <<apiKey, route, body, calls, fetched>>

\* Up to MaxReqs requests in flight, their steps interleaved in any order.
Next ==
  \E r \in Reqs :
    \/ \E b \in FewChatBodies : PostChat(r, b)
    \/ \E b \in FewTitleBodies : PostTitle(r, b)
    \/ \E resp \in FewResponses : FetchResolves(r, resp)
    \/ FetchRejects(r)
    \/ JsonSettles(r)

Spec == Init /\ [][Next]_vars

\* One request, over every body and every provider answer.
NextOne ==
  \/ \E b \in ChatBodies : PostChat(1, b)
  \/ \E b \in TitleBodies : PostTitle(1, b)
  \/ /\ pc[1] = "awaitFetch"
     /\ \E resp \in EveryResponse : FetchResolves(1, resp)
  \/ FetchRejects(1)
  \/ JsonSettles(1)

SpecOne == Init /\ [][NextOne]_vars

(***************************************************************************)
(* Vocabulary of the properties, stated on the inputs and the answers      *)
(* alone.                                                                  *)
(***************************************************************************)

\* Field f of a request body is absent or empty.
Missing(b, f) == f \notin DOMAIN b \/ b[f] = ""

NoImage(b) == Missing(b, "imageUrl") /\ Missing(b, "imageDataUrl")

\* Request r got exactly the response resp, and its handler has ended.
AnsweredWith(r, resp) == pc[r] = "done" /\ sent[r] = << resp >>

\* Request r got exactly one response, an error payload with status st.
AnsweredError(r, st) ==
  /\ pc[r] = "done"
  /\ Len(sent[r]) = 1
  /\ DOMAIN sent[r][1] = {"status", "error"}
  /\ sent[r][1].status = st

\* The provider answered r's outbound call with an HTTP response.
GotResponse(r) == fetched[r].kind = "response"

Is2xx(resp) == resp.status \in 200..299

\* The provider's body is JSON and carries choices[0].message.content.
HasContent(resp) ==
  /\ resp.json
  /\ "choices" \in DOMAIN resp.data
  /\ resp.data.choices # <<>>
  /\ "message" \in DOMAIN resp.data.choices[1]
  /\ "content" \in DOMAIN resp.data.choices[1].message

\* The text the provider returned: choices[0].message.content, or "".
ProviderText(resp) ==
  IF HasContent(resp) THEN resp.data.choices[1].message.content ELSE <<>>

\* The provider's body carries error.message.
HasErrorMessage(resp) ==
  /\ resp.json
  /\ "error" \in DOMAIN resp.data
  /\ "message" \in DOMAIN resp.data.error

(***************************************************************************)
(* C1.  As claimed: with no credential configured, every /api/chat and     *)
(* every /api/title request, whatever its body, is answered 500 with an    *)
(* error payload and makes no outbound call.                               *)
(***************************************************************************)
C1_Original ==
  \A r \in Reqs :
    (~apiKey /\ route[r] # "none") => AnsweredError(r, 500) /\ calls[r] = <<>>

\* C1, amended: with no credential configured, every /api/title request and
\* every /api/chat request with a non-empty message is answered 500 with an
\* error payload; an /api/chat request whose message is empty or absent is
\* answered 400 with an error payload; none of them makes an outbound call.
C1_NoCredential ==
  \A r \in Reqs :
    (~apiKey /\ route[r] # "none") =>
      /\ calls[r] = <<>>
      /\ IF route[r] = "chat" /\ Missing(body[r], "message")
         THEN AnsweredError(r, 400)
         ELSE AnsweredError(r, 500)

\* C1's case: no credential, an /api/title request without an image, 500.
C1_Witness ==
  /\ ~apiKey
  /\ route[1] = "title"
  /\ NoImage(body[1])
  /\ AnsweredError(1, 500)

(***************************************************************************)
(* C2.  Every /api/chat request whose message is empty or absent is        *)
(* answered 400 {error: "message is required"}, whatever its other fields  *)
(* and whether or not the credential is configured, and makes no outbound  *)
(* call.                                                                   *)
(***************************************************************************)
C2_MessageRequired ==
  \A r \in Reqs :
    (route[r] = "chat" /\ Missing(body[r], "message")) =>
      /\ AnsweredWith(r, [status |-> 400, error |-> "message is required"])
      /\ calls[r] = <<>>

\* C2's case: an empty message beside another field, no credential, 400.
C2_Witness ==
  /\ ~apiKey
  /\ route[1] = "chat"
  /\ "message" \in DOMAIN body[1]
  /\ body[1].message = ""
  /\ "imageUrl" \in DOMAIN body[1]
  /\ AnsweredError(1, 400)

(***************************************************************************)
(* C3.  As claimed: every /api/title request with neither imageUrl nor     *)
(* imageDataUrl (absent or empty) is answered 400 with an error payload    *)
(* and makes no outbound call.                                             *)
(***************************************************************************)
C3_Original ==
  \A r \in Reqs :
    (route[r] = "title" /\ NoImage(body[r])) =>
      AnsweredError(r, 400) /\ calls[r] = <<>>

\* C3, amended: with the credential configured, every /api/title request
\* with neither imageUrl nor imageDataUrl is answered 400 with an error
\* payload; with no credential configured it is answered 500; in both cases
\* no outbound call is made for it.
C3_ImageRequired ==
  \A r \in Reqs :
    (route[r] = "title" /\ NoImage(body[r])) =>
      /\ calls[r] = <<>>
      /\ IF apiKey
         THEN AnsweredWith(r, [status |-> 400,
                               error |-> "imageUrl or imageDataUrl is required"])
         ELSE AnsweredError(r, 500)

\* C3's case: credential configured, both image fields empty, 400.
C3_Witness ==
  /\ apiKey
  /\ route[1] = "title"
  /\ DOMAIN body[1] = {"imageUrl", "imageDataUrl"}
  /\ NoImage(body[1])
  /\ AnsweredError(1, 400)

(***************************************************************************)
(* C4.  An /api/chat request with a non-empty message, the credential      *)
(* configured and a 2xx provider answer is answered 200 {reply: T}, T the  *)
(* provider's choices[0].message.content, or "" when it returned none.     *)
(***************************************************************************)
C4_ChatReply ==
  \A r \in Reqs :
    (route[r] = "chat" /\ pc[r] = "done" /\ GotResponse(r) /\ Is2xx(fetched[r])) =>
      /\ apiKey
      /\ ~Missing(body[r], "message")
      /\ sent[r] = << [status |-> 200, reply |-> ProviderText(fetched[r])] >>

\* C4's case: a chat request relayed a non-empty provider content.
C4_Witness ==
  /\ route[1] = "chat"
  /\ pc[1] = "done"
  /\ GotResponse(1)
  /\ Is2xx(fetched[1])
  /\ HasContent(fetched[1])
  /\ Len(sent[1]) = 1
  /\ sent[1][1].status = 200
  /\ sent[1][1].reply = <<"h", "e", "l", "l", "o">>

(***************************************************************************)
(* C5.  A valid /api/title request whose provider call succeeds with raw   *)
(* text R is answered 200 {reply: S}: S is the re-serialization of the     *)
(* parsed value when R parses as JSON (S then parses and re-serializes to  *)
(* itself), and R verbatim when it does not; never an error payload.       *)
(***************************************************************************)
C5_TitleReply ==
  \A r \in Reqs :
    (route[r] = "title" /\ pc[r] = "done" /\ GotResponse(r) /\ Is2xx(fetched[r])) =>
      LET R == ProviderText(fetched[r]) IN
      /\ Len(sent[r]) = 1
      /\ DOMAIN sent[r][1] = {"status", "reply"}
      /\ sent[r][1].status = 200
      /\ IF JsonParse(R).ok
         THEN /\ sent[r][1].reply = JsonStringify(JsonParse(R).val)
              /\ JsonParse(sent[r][1].reply).ok
              /\ JsonStringify(JsonParse(sent[r][1].reply).val) = sent[r][1].reply
         ELSE sent[r][1].reply = R

\* C5's case: the provider's text parsed and the reply is its
\* re-serialization, which differs from the text.
C5_Witness ==
  /\ route[1] = "title"
  /\ pc[1] = "done"
  /\ GotResponse(1)
  /\ Is2xx(fetched[1])
  /\ JsonParse(ProviderText(fetched[1])).ok
  /\ Len(sent[1]) = 1
  /\ sent[1][1].status = 200
  /\ sent[1][1].reply # ProviderText(fetched[1])

C7_Original ==
  \A r \in Reqs :
    (pc[r] = "done" /\ GotResponse(r) /\ ~HasContent(fetched[r])) =>
      AnsweredError(r, 500)

\* C7, amended: a provider answer whose body is not JSON or carries no
\* content is answered 500 with an error payload only when the provider's
\* status is non-2xx; when the status is 2xx it is answered 200 {reply: ""},
\* on both relays.
C7_EmptyAnswer ==
  \A r \in Reqs :
    (pc[r] = "done" /\ GotResponse(r) /\ ~HasContent(fetched[r])) =>
      IF Is2xx(fetched[r])
      THEN AnsweredWith(r, [status |-> 200, reply |-> <<>>])
      ELSE AnsweredError(r, 500)

\* C7's case: a 2xx answer whose body is not JSON, answered 200 {reply: ""}.
C7_Witness ==
  /\ route[1] = "title"
  /\ GotResponse(1)
  /\ Is2xx(fetched[1])
  /\ ~fetched[1].json
  /\ AnsweredWith(1, [status |-> 200, reply |-> <<>>])

(***************************************************************************)
(* C8.  Each request gets at most one response, of the success shape       *)
(* (200, only reply) or of the error shape (400 or 500, only error); a     *)
(* request that has a response is finished, so nothing follows it.         *)
(***************************************************************************)
C8_OneResponse ==
  \A r \in Reqs :
    /\ Len(sent[r]) <= 1
    /\ pc[r] = "done" <=> Len(sent[r]) = 1
    /\ \A i \in 1..Len(sent[r]) :
         \/ DOMAIN sent[r][i] = {"status", "reply"} /\ sent[r][i].status = 200
         \/ DOMAIN sent[r][i] = {"status", "error"} /\ sent[r][i].status \in {400, 500}

\* C8's case: every request answered, one with a reply, one with a 400 and
\* one with a 500.
C8_Witness ==
  /\ \A r \in Reqs : pc[r] = "done"
  /\ \E r \in Reqs : "reply" \in DOMAIN sent[r][1]
  /\ \E r \in Reqs : sent[r][1].status = 400
  /\ \E r \in Reqs : sent[r][1].status = 500

(***************************************************************************)
(* C9.  Two answered requests with the same route and body whose outbound  *)
(* calls settled the same way got the same response, whatever was          *)
(* interleaved with them.                                                  *)
(***************************************************************************)
C9_Independent ==
  \A r1, r2 \in Reqs :
    (/\ pc[r1] = "done"
     /\ pc[r2] = "done"
     /\ route[r1] = route[r2]
     /\ body[r1] = body[r2]
     /\ fetched[r1] = fetched[r2]) => sent[r1] = sent[r2]

\* C9's case: the same request answered twice by the provider in the same
\* way, with a third request in flight whose provider answer differs.
C9_Witness ==
  \E r1, r2, r3 \in Reqs :
    /\ r1 # r2
    /\ pc[r1] = "done"
    /\ pc[r2] = "done"
    /\ route[r1] = route[r2]
    /\ body[r1] = body[r2]
    /\ GotResponse(r1)
    /\ fetched[r1] = fetched[r2]
    /\ pc[r3] = "awaitJson"
    /\ fetched[r3] # fetched[r1]
    /\ sent[r1] = sent[r2]
    /\ Len(sent[r1]) = 1

(***************************************************************************)
(* C10.  At most one outbound call is made per request: a rejected fetch   *)
(* or a non-2xx answer ends the request after its one call, and a request  *)
(* rejected by validation or by the credential check makes none.           *)
(***************************************************************************)
C10_SingleCall ==
  \A r \in Reqs :
    /\ Len(calls[r]) <= 1
    /\ (fetched[r].kind = "rejected") => (pc[r] = "done" /\ Len(calls[r]) = 1)
    /\ (GotResponse(r) /\ ~Is2xx(fetched[r])) => Len(calls[r]) = 1
    /\ (\/ ~apiKey
        \/ route[r] = "chat" /\ Missing(body[r], "message")
        \/ route[r] = "title" /\ NoImage(body[r])) => calls[r] = <<>>

\* C10's case: one request ended by a network failure and one by a non-2xx
\* answer, each after a single call.
C10_Witness ==
  \E r1, r2 \in Reqs :
    /\ fetched[r1].kind = "rejected"
    /\ pc[r1] = "done"
    /\ Len(calls[r1]) = 1
    /\ GotResponse(r2)
    /\ ~Is2xx(fetched[r2])
    /\ pc[r2] = "done"
    /\ Len(calls[r2]) = 1

====
